---- MODULE Spec2Model ----
(***************************************************************************)
(* PageCheck (src/pagecheck.py): a checklist file maps URLs to the digest  *)
(* of the page last seen there.  One run of _main loads the file, fetches  *)
(* and hashes every URL (sequentially, or on a multiprocessing pool),      *)
(* diffs the fresh digests against the stored ones, notifies, replaces the *)
(* stored mapping and saves the file when something changed.               *)
(*                                                                         *)
(* URLs are the numbers 1..n.  A Python dict is a function (its mapping)   *)
(* together with the sequence of its keys in insertion order where the     *)
(* order is read (page_keys, url_list).  The checklist file is the JSON    *)
(* document: the sequence of its members <<key, value>> in text order.     *)
(***************************************************************************)
EXTENDS Integers, Sequences, FiniteSets, TLC

\* Bounds of the model.
MaxUrls == 2         \* URLs a checklist of the main run may hold
PoolUrls == 4        \* URLs of the checklist when get_hash_dict runs alone
MaxProc == 3         \* process_count ranges over 1..MaxProc
DiffUrls == 3        \* keys of the dicts diff_dict is called with on its own

Pages == {"p1", "p2"}            \* page texts a fetch may return
ERR == "URLError"                \* urlopen raised
Stored == {"", "h1", "h2"}       \* values a checklist holds ("" = not hashed yet)
NoArg == 0                       \* --add / --remove left at their default ""

VARIABLES
    file,           \* the checklist file: sequence of members <<url, digest>>
    file0,          \* the file as it was when the run started
    page_dict,      \* PageCheck.page_dict (the mapping)
    page_keys,      \* PageCheck.page_dict (its keys, in insertion order)
    process_count,  \* PageCheck.process_count
    run_silent,     \* argument of check_update_notify
    pc,             \* the statement the run executes next
    url_list,       \* argument of get_hash_dict
    idx,            \* position of the sequential loop in url_list
    hash_dict,      \* the local hash_dict of the sequential path
    next_task,      \* first task of the pool's queue not yet taken by a worker
    inflight,       \* URLs being fetched and hashed right now
    results,        \* the pairs the pool's workers have returned
    failed,         \* a task of the pool has raised
    web,            \* what urlopen answered for each URL fetched in this pass
    fetched,        \* how many times each URL was handed to the hasher
    new_dict,       \* check_update_notify's new_dict
    diff,           \* check_update_notify's diff (its return value)
    notified,       \* calls of self.notifier in this pass
    notify_arg,     \* the argument of the last notifier call
    log,            \* the pass's steps in order: "diff", "notify", "replace"
    writes          \* writes of the checklist file in this run

vars == <<file, file0, page_dict, page_keys, process_count, run_silent, pc,
          url_list, idx, hash_dict, next_task, inflight, results, failed,
          web, fetched, new_dict, diff, notified, notify_arg, log, writes>>

----------------------------------------------------------------------------
\* Python dicts.

EmptyDict == [k \in {} |-> ""]

\* d[k] = v
DictSet(d, k, v) == [x \in DOMAIN d \cup {k} |-> IF x = k THEN v ELSE d[x]]

\* len(d)
len(d) == Cardinality(DOMAIN d)

\* dict(pairs) for a collection of (key, value) pairs
dict(pairs) ==
    [k \in {p[1] : p \in pairs} |-> (CHOOSE p \in pairs : p[1] = k)[2]]

----------------------------------------------------------------------------
\* The JSON document of the checklist.

\* json.load: the mapping of the document; of a repeated name the last member wins
json_load(doc) ==
    [k \in {doc[i][1] : i \in DOMAIN doc} |->
        LET last == CHOOSE i \in DOMAIN doc :
                        /\ doc[i][1] = k
                        /\ \A j \in DOMAIN doc : doc[j][1] = k => j <= i
        IN  doc[last][2]]

\* json.load: the keys of the loaded dict in insertion order (first occurrence)
RECURSIVE json_load_keys(_)
json_load_keys(doc) ==
    IF doc = <<>> THEN <<>>
    ELSE LET n    == Len(doc)
             init == json_load_keys(SubSeq(doc, 1, n - 1))
         IN  IF \E i \in 1..(n - 1) : doc[i][1] = doc[n][1]
             THEN init
             ELSE Append(init, doc[n][1])

\* json.dump: one member per key, in the dict's order
json_dump(d, keys) == [i \in 1..Len(keys) |-> <<keys[i], d[keys[i]]>>]

----------------------------------------------------------------------------
\* GetHash

hexdigest(page_text) == IF page_text = "p1" THEN "h1" ELSE "h2"

\* GetHash.__call__ once urlopen has answered page_text: (url, digest)
GetHash_call(url, page_text) == <<url, hexdigest(page_text)>>

----------------------------------------------------------------------------
\* PageCheck.get_hash_dict

\* "if self.process_count > 2:  # Use multiprocessing"
UsePool == process_count > 2

\* mutant: the pool is created with one worker too many
PoolSize_plus1 == process_count + 1

\* multiprocessing.Pool(processes=self.process_count): the pool's workers
PoolSize == process_count

\* "returnedurl, hash_dict[url] = self.hasher(url)"
SeqStore(d, url, pair) == DictSet(d, url, pair[2])

\* hash_pool.map hands the tasks out in the order of url_list, one URL per task
\* (its chunksize is 1 while len(url_list) <= 4 * processes).
Task(i) == url_list[i]

Fetch(u) == fetched' = DictSet(fetched, u, IF u \in DOMAIN fetched THEN fetched[u] + 1 ELSE 1)

run_vars == <<file, file0, page_dict, page_keys, process_count, run_silent>>
pass_vars == <<new_dict, diff, notified, notify_arg, log, writes>>

\* the call: url_list is bound, the path is chosen, the locals are fresh
get_hash_dict_Enter ==
    /\ pc = "get_hash_dict"
    /\ url_list' = page_keys
    /\ pc' = IF UsePool THEN "pool" ELSE "seq"
    /\ idx' = 1
    /\ hash_dict' = EmptyDict
    /\ next_task' = 1
    /\ inflight' = {}
    /\ results' = {}
    /\ failed' = FALSE
    /\ UNCHANGED <<run_vars, pass_vars, web, fetched>>

\* sequential path: self.hasher(url) is called for the loop's next url
Seq_Call ==
    /\ pc = "seq"
    /\ idx <= Len(url_list)
    /\ inflight = {}
    /\ inflight' = {url_list[idx]}
    /\ Fetch(url_list[idx])
    /\ UNCHANGED <<run_vars, pass_vars, pc, url_list, idx, hash_dict, next_task,
                   results, failed, web>>

\* sequential path: the hasher returns and the digest is stored
Seq_Return ==
    /\ pc = "seq"
    /\ \E u \in inflight, page_text \in Pages :
          /\ web' = DictSet(web, u, page_text)
          /\ hash_dict' = SeqStore(hash_dict, u, GetHash_call(u, page_text))
          /\ inflight' = {}
          /\ idx' = idx + 1
    /\ UNCHANGED <<run_vars, pass_vars, pc, url_list, next_task, results, failed,
                   fetched>>

\* mutant: the failure is swallowed, the URL keeps an empty digest and the
\* loop goes on
Seq_Raise_swallow ==
    /\ pc = "seq"
    /\ \E u \in inflight :
          /\ web' = DictSet(web, u, ERR)
          /\ hash_dict' = DictSet(hash_dict, u, "")
          /\ inflight' = {}
          /\ idx' = idx + 1
    /\ UNCHANGED <<run_vars, pass_vars, pc, url_list, next_task, results, failed,
                   fetched>>

\* sequential path: urlopen raises; nothing catches it up to _main
Seq_Raise ==
    /\ pc = "seq"
    /\ \E u \in inflight :
          /\ web' = DictSet(web, u, ERR)
          /\ inflight' = {}
    /\ pc' = "fetch_error"
    /\ UNCHANGED <<run_vars, pass_vars, url_list, idx, hash_dict, next_task,
                   results, failed, fetched>>

\* sequential path: the loop is over, hash_dict is returned
Seq_Done ==
    /\ pc = "seq"
    /\ idx > Len(url_list)
    /\ new_dict' = hash_dict
    /\ pc' = "diff_dict"
    /\ UNCHANGED <<run_vars, diff, notified, notify_arg, log, writes, url_list,
                   idx, hash_dict, next_task, inflight, results, failed, web,
                   fetched>>

\* pool path: a free worker takes the next task of the queue
Pool_Take ==
    /\ pc = "pool"
    /\ next_task <= Len(url_list)
    /\ Cardinality(inflight) < PoolSize
    /\ inflight' = inflight \cup {Task(next_task)}
    /\ next_task' = next_task + 1
    /\ Fetch(Task(next_task))
    /\ UNCHANGED <<run_vars, pass_vars, pc, url_list, idx, hash_dict, results,
                   failed, web>>

\* pool path: a worker's hasher returns its (url, digest) pair
Pool_TaskReturn ==
    /\ pc = "pool"
    /\ \E u \in inflight, page_text \in Pages :
          /\ web' = DictSet(web, u, page_text)
          /\ results' = results \cup {GetHash_call(u, page_text)}
          /\ inflight' = inflight \ {u}
    /\ UNCHANGED <<run_vars, pass_vars, pc, url_list, idx, hash_dict, next_task,
                   failed, fetched>>

\* pool path: a worker's urlopen raises; the pool keeps the exception for map
Pool_TaskRaise ==
    /\ pc = "pool"
    /\ \E u \in inflight :
          /\ web' = DictSet(web, u, ERR)
          /\ inflight' = inflight \ {u}
    /\ failed' = TRUE
    /\ UNCHANGED <<run_vars, pass_vars, pc, url_list, idx, hash_dict, next_task,
                   results, fetched>>

\* mutant: the results are collected without waiting for every task
Pool_MapReturn_nojoin ==
    /\ pc = "pool"
    /\ ~failed
    /\ new_dict' = dict(results)
    /\ pc' = "diff_dict"
    /\ UNCHANGED <<run_vars, diff, notified, notify_arg, log, writes, url_list,
                   idx, hash_dict, next_task, inflight, results, failed, web,
                   fetched>>

\* pool path: every task has returned; dict(hash_pool.map(...)) is returned
Pool_MapReturn ==
    /\ pc = "pool"
    /\ ~failed
    /\ next_task > Len(url_list)
    /\ inflight = {}
    /\ new_dict' = dict(results)
    /\ pc' = "diff_dict"
    /\ UNCHANGED <<run_vars, diff, notified, notify_arg, log, writes, url_list,
                   idx, hash_dict, next_task, inflight, results, failed, web,
                   fetched>>

\* pool path: map re-raises a task's exception.  Depending on the Python
\* version map raises at the first failure or once every task is done; the
\* with-block then terminates the workers.
Pool_MapRaise ==
    /\ pc = "pool"
    /\ failed
    /\ inflight' = {}
    /\ pc' = "fetch_error"
    /\ UNCHANGED <<run_vars, pass_vars, url_list, idx, hash_dict, next_task,
                   results, failed, web, fetched>>

get_hash_dict ==
    \/ get_hash_dict_Enter
    \/ Seq_Call
    \/ Seq_Return
    \/ Seq_Raise
    \/ Seq_Done
    \/ Pool_Take
    \/ Pool_TaskReturn
    \/ Pool_TaskRaise
    \/ Pool_MapReturn
    \/ Pool_MapRaise

----------------------------------------------------------------------------
\* PageCheck.diff_dict

\* mutant: a changed value is reported with the second dict's value
diff_branch_second(first_dict, second_dict, key, acc) ==
    IF key \notin DOMAIN second_dict THEN DictSet(acc, key, first_dict[key])
    ELSE IF key \notin DOMAIN first_dict THEN DictSet(acc, key, second_dict[key])
    ELSE IF first_dict[key] # second_dict[key] THEN DictSet(acc, key, second_dict[key])
    ELSE acc

\* mutant: a key of the second dict alone is not reported
diff_branch_nosecondonly(first_dict, second_dict, key, acc) ==
    IF key \notin DOMAIN second_dict THEN DictSet(acc, key, first_dict[key])
    ELSE IF key \notin DOMAIN first_dict THEN acc
    ELSE IF first_dict[key] # second_dict[key] THEN DictSet(acc, key, first_dict[key])
    ELSE acc

\* mutant: the values of a key of both dicts are not compared
diff_branch_novalue(first_dict, second_dict, key, acc) ==
    IF key \notin DOMAIN second_dict THEN DictSet(acc, key, first_dict[key])
    ELSE IF key \notin DOMAIN first_dict THEN DictSet(acc, key, second_dict[key])
    ELSE acc

\* the body of "for key in all_keys": the if / elif / elif chain on one key
diff_branch(first_dict, second_dict, key, acc) ==
    IF key \notin DOMAIN second_dict THEN DictSet(acc, key, first_dict[key])
    ELSE IF key \notin DOMAIN first_dict THEN DictSet(acc, key, second_dict[key])
    ELSE IF first_dict[key] # second_dict[key] THEN DictSet(acc, key, first_dict[key])
    ELSE acc

\* the loop over all_keys, a set: the keys come in no particular order
RECURSIVE diff_loop(_, _, _, _)
diff_loop(first_dict, second_dict, keys, acc) ==
    IF keys = {} THEN acc
    ELSE LET key == CHOOSE k \in keys : TRUE
         IN  diff_loop(first_dict, second_dict, keys \ {key},
                       diff_branch(first_dict, second_dict, key, acc))

diff_dict(first_dict, second_dict) ==
    LET all_keys == DOMAIN first_dict \cup DOMAIN second_dict
    IN  diff_loop(first_dict, second_dict, all_keys, EmptyDict)

----------------------------------------------------------------------------
\* PageCheck.check_update_notify, after get_hash_dict has returned new_dict

\* mutant: the notifier is called for an empty diff too
NotifyCond_nonsilent == ~run_silent

\* "if diff != {} and not run_silent:"
NotifyCond == DOMAIN diff # {} /\ ~run_silent

hash_vars == <<url_list, idx, hash_dict, next_task, inflight, results, failed,
               web, fetched>>

\* "diff = self.diff_dict(new_dict, self.page_dict)"
Diff ==
    /\ pc = "diff_dict"
    /\ diff' = diff_dict(new_dict, page_dict)
    /\ log' = Append(log, "diff")
    /\ pc' = "notify"
    /\ UNCHANGED <<run_vars, hash_vars, new_dict, notified, notify_arg, writes>>

\* "self.notifier(diff)": the notifier returns (what it returns is dropped)
Notify_Return ==
    /\ pc = "notify"
    /\ NotifyCond
    /\ notified' = notified + 1
    /\ notify_arg' = diff
    /\ log' = Append(log, "notify")
    /\ pc' = "replace"
    /\ UNCHANGED <<run_vars, hash_vars, new_dict, diff, writes>>

\* "self.notifier(diff)": the notifier raises (SMTPNotify: the connection, the
\* login or the delivery fails); nothing catches it up to _main
Notify_Raise ==
    /\ pc = "notify"
    /\ NotifyCond
    /\ notified' = notified + 1
    /\ notify_arg' = diff
    /\ log' = Append(log, "notify")
    /\ pc' = "notify_error"
    /\ UNCHANGED <<run_vars, hash_vars, new_dict, diff, writes>>

\* the condition of line 160 is false: no call
Notify_Skip ==
    /\ pc = "notify"
    /\ ~NotifyCond
    /\ pc' = "replace"
    /\ UNCHANGED <<run_vars, hash_vars, pass_vars>>

\* "self.page_dict = new_dict; return diff"
Replace ==
    /\ pc = "replace"
    /\ page_dict' = new_dict
    /\ page_keys' = url_list
    /\ log' = Append(log, "replace")
    /\ pc' = "return"
    /\ UNCHANGED <<file, file0, process_count, run_silent, hash_vars, new_dict,
                   diff, notified, notify_arg, writes>>

check_update_notify ==
    \/ Diff
    \/ Notify_Return
    \/ Notify_Raise
    \/ Notify_Skip
    \/ Replace

----------------------------------------------------------------------------
\* _main

Urls == 1..MaxUrls

\* mutant: the file is saved after every pass
SaveCond_always == len(diff) >= 0

\* "if len(result) > 0:"
SaveCond == len(diff) > 0

\* what a run starts from: nothing fetched, nothing notified, nothing written
Fresh ==
    /\ url_list' = <<>>
    /\ idx' = 1
    /\ hash_dict' = EmptyDict
    /\ next_task' = 1
    /\ inflight' = {}
    /\ results' = {}
    /\ failed' = FALSE
    /\ web' = EmptyDict
    /\ fetched' = EmptyDict
    /\ new_dict' = EmptyDict
    /\ diff' = EmptyDict
    /\ notified' = 0
    /\ notify_arg' = EmptyDict
    /\ log' = <<>>
    /\ writes' = 0

\* lines 331-333: PageCheck(..., process_count=args.processcount), load_json,
\* and the call of check_update_notify (run_silent is the caller's choice;
\* _main itself passes the default False)
Main_Load ==
    /\ pc = "idle"
    /\ \E c \in 1..MaxProc, s \in BOOLEAN :
          /\ process_count' = c
          /\ run_silent' = s
    /\ page_dict' = json_load(file)
    /\ page_keys' = json_load_keys(file)
    /\ file0' = file
    /\ Fresh
    /\ pc' = "get_hash_dict"
    /\ UNCHANGED file

\* lines 334-335: the changes are saved
Main_Save ==
    /\ pc = "return"
    /\ SaveCond
    /\ file' = json_dump(page_dict, page_keys)
    /\ writes' = writes + 1
    /\ pc' = "done"
    /\ UNCHANGED <<file0, page_dict, page_keys, process_count, run_silent,
                   hash_vars, new_dict, diff, notified, notify_arg, log>>

\* line 334: nothing changed, nothing is saved
Main_NoSave ==
    /\ pc = "return"
    /\ ~SaveCond
    /\ pc' = "done"
    /\ UNCHANGED <<run_vars, hash_vars, pass_vars>>

\* the process ends (normally, or on the uncaught exception); the file stays
\* for the next run
Main_Exit ==
    /\ pc \in {"done", "fetch_error", "notify_error"}
    /\ pc' = "idle"
    /\ page_dict' = EmptyDict
    /\ page_keys' = <<>>
    /\ process_count' = 1
    /\ run_silent' = FALSE
    /\ file0' = file
    /\ Fresh
    /\ UNCHANGED file

\* saved_dict[args.add] = ""
dict_add(d, keys, add) ==
    IF add = NoArg THEN <<d, keys>>
    ELSE <<DictSet(d, add, ""),
           IF add \in DOMAIN d THEN keys ELSE Append(keys, add)>>

\* del saved_dict[args.remove], a KeyError being caught
dict_del(d, keys, remove)  ==
    IF remove = NoArg \/ remove \notin DOMAIN d THEN <<d, keys>>
    ELSE <<[k \in DOMAIN d \ {remove} |-> d[k]],
           SelectSeq(keys, LAMBDA k : k # remove)>>

\* lines 296-312: --add / --remove edit the file and exit without a pass
Main_AddRemove ==
    /\ pc = "idle"
    /\ \E add \in Urls \cup {NoArg}, remove \in Urls \cup {NoArg} :
          /\ add # NoArg \/ remove # NoArg
          /\ LET a == dict_add(json_load(file), json_load_keys(file), add)
                 r == dict_del(a[1], a[2], remove)
             IN  file' = json_dump(r[1], r[2])
    /\ file0' = file'
    /\ UNCHANGED <<page_dict, page_keys, process_count, run_silent, pc,
                   hash_vars, pass_vars>>

_main ==
    \/ Main_Load
    \/ Main_Save
    \/ Main_NoSave
    \/ Main_Exit
    \/ Main_AddRemove

----------------------------------------------------------------------------
\* The run of _main over a checklist of at most MaxUrls URLs.

\* the JSON documents of n members with distinct keys among urls
RECURSIVE Docs(_, _)
Docs(urls, n) ==
    IF n = 0 THEN {<<>>}
    ELSE {Append(d, <<u, v>>) :
            d \in Docs(urls, n - 1), u \in urls, v \in Stored}

DistinctKeys(doc) ==
    \A i, j \in DOMAIN doc : doc[i][1] = doc[j][1] => i = j

Checklists ==
    {d \in UNION {Docs(Urls, n) : n \in 0..MaxUrls} : DistinctKeys(d)}

Idle ==
    /\ pc = "idle"
    /\ page_dict = EmptyDict
    /\ page_keys = <<>>
    /\ process_count = 1
    /\ run_silent = FALSE
    /\ url_list = <<>>
    /\ idx = 1
    /\ hash_dict = EmptyDict
    /\ next_task = 1
    /\ inflight = {}
    /\ results = {}
    /\ failed = FALSE
    /\ web = EmptyDict
    /\ fetched = EmptyDict
    /\ new_dict = EmptyDict
    /\ diff = EmptyDict
    /\ notified = 0
    /\ notify_arg = EmptyDict
    /\ log = <<>>
    /\ writes = 0

Init ==
    /\ file \in Checklists
    /\ file0 = file
    /\ Idle

Next == _main \/ get_hash_dict \/ check_update_notify

Spec == Init /\ [][Next]_vars

----------------------------------------------------------------------------
\* diff_dict on its own: called with any two dicts over at most DiffUrls keys.

Dicts == UNION {[S -> Stored] : S \in SUBSET (1..DiffUrls)}

InitDiff ==
    /\ pc = "diff_dict"
    /\ new_dict \in Dicts
    /\ page_dict \in Dicts
    /\ page_keys = <<>>
    /\ file = <<>>
    /\ file0 = <<>>
    /\ process_count = 1
    /\ run_silent = FALSE
    /\ url_list = <<>>
    /\ idx = 1
    /\ hash_dict = EmptyDict
    /\ next_task = 1
    /\ inflight = {}
    /\ results = {}
    /\ failed = FALSE
    /\ web = EmptyDict
    /\ fetched = EmptyDict
    /\ diff = EmptyDict
    /\ notified = 0
    /\ notify_arg = EmptyDict
    /\ log = <<>>
    /\ writes = 0

NextDiff == Diff

SpecDiff == InitDiff /\ [][NextDiff]_vars

----------------------------------------------------------------------------
\* get_hash_dict on its own: a PageCheck over a checklist of up to PoolUrls
\* freshly added URLs, whose pass has just called get_hash_dict.

Added(n) == [i \in 1..n |-> <<i, "">>]

InitHash ==
    /\ pc = "get_hash_dict"
    /\ file \in {Added(n) : n \in 0..PoolUrls}
    /\ file0 = file
    /\ page_dict = json_load(file)
    /\ page_keys = json_load_keys(file)
    /\ process_count \in 1..MaxProc
    /\ run_silent = FALSE
    /\ url_list = <<>>
    /\ idx = 1
    /\ hash_dict = EmptyDict
    /\ next_task = 1
    /\ inflight = {}
    /\ results = {}
    /\ failed = FALSE
    /\ web = EmptyDict
    /\ fetched = EmptyDict
    /\ new_dict = EmptyDict
    /\ diff = EmptyDict
    /\ notified = 0
    /\ notify_arg = EmptyDict
    /\ log = <<>>
    /\ writes = 0

NextHash == get_hash_dict

SpecHash == InitHash /\ [][NextHash]_vars

----------------------------------------------------------------------------
\* Properties.

\* C1 (SpecDiff): diff_dict(new, old) is exactly the map over the union of the
\* keys in which a key absent from old has new's value, a key absent from new
\* has old's value, a key of both with unequal values has new's value, and a
\* key of both with equal values does not appear; no other key appears.
C1_DiffContract ==
    pc = "notify" =>
        /\ DOMAIN diff \subseteq DOMAIN new_dict \cup DOMAIN page_dict
        /\ \A k \in DOMAIN new_dict \cup DOMAIN page_dict :
              /\ k \notin DOMAIN page_dict =>
                    k \in DOMAIN diff /\ diff[k] = new_dict[k]
              /\ k \notin DOMAIN new_dict =>
                    k \in DOMAIN diff /\ diff[k] = page_dict[k]
              /\ (k \in DOMAIN new_dict /\ k \in DOMAIN page_dict
                    /\ new_dict[k] # page_dict[k]) =>
                    k \in DOMAIN diff /\ diff[k] = new_dict[k]
              /\ (k \in DOMAIN new_dict /\ k \in DOMAIN page_dict
                    /\ new_dict[k] = page_dict[k]) =>
                    k \notin DOMAIN diff

\* an addition, a removal and a changed value reported by one call
C1_Witness ==
    /\ pc = "notify"
    /\ len(diff) = 3
    /\ \E k \in DOMAIN new_dict : k \notin DOMAIN page_dict
    /\ \E k \in DOMAIN page_dict : k \notin DOMAIN new_dict
    /\ \E k \in DOMAIN new_dict \cap DOMAIN page_dict : new_dict[k] # page_dict[k]

\* C2 as stated (SpecDiff): diff(A, B) and diff(B, A) have the same keys and
\* every value of diff(A, B) is A's value of that key.
C2_AllValuesFromFirst ==
    pc = "notify" =>
        /\ DOMAIN diff = DOMAIN diff_dict(page_dict, new_dict)
        /\ \A k \in DOMAIN diff : k \in DOMAIN new_dict /\ diff[k] = new_dict[k]

\* C2 as amended (SpecDiff): diff(A, B) and diff(B, A) have the same keys; a
\* key of diff(A, B) has A's value when A holds the key and B's value when
\* only B holds it.
C2_DiffSymmetry ==
    pc = "notify" =>
        /\ DOMAIN diff = DOMAIN diff_dict(page_dict, new_dict)
        /\ \A k \in DOMAIN diff :
              IF k \in DOMAIN new_dict THEN diff[k] = new_dict[k]
              ELSE k \in DOMAIN page_dict /\ diff[k] = page_dict[k]

\* a key of the second dict alone next to a key whose values differ
C2_Witness ==
    /\ pc = "notify"
    /\ \E k \in DOMAIN diff : k \notin DOMAIN new_dict
    /\ \E k \in DOMAIN diff : k \in DOMAIN new_dict /\ k \in DOMAIN page_dict

\* the steps of the pass in the order the claim allows
NotifyInOrder ==
    \A i \in DOMAIN log :
        log[i] = "notify" =>
            /\ \E j \in 1..(i - 1) : log[j] = "diff"
            /\ \A j \in DOMAIN log : log[j] = "replace" => i < j

\* C3 (Spec): in one call of check_update_notify the notifier is called exactly
\* once, with the returned diff, when the diff is non-empty and run_silent is
\* false, and not at all otherwise; the call comes after the diff is computed
\* and before page_dict is replaced.
C3_NotifyOnce ==
    /\ notified <= 1
    /\ pc \in {"replace", "return", "done", "notify_error"} =>
          notified = (IF DOMAIN diff # {} /\ ~run_silent THEN 1 ELSE 0)
    /\ notified = 1 => notify_arg = diff /\ DOMAIN diff # {}
    /\ NotifyInOrder

\* a pass that notified and then replaced page_dict
C3_Witness ==
    /\ pc = "return"
    /\ notified = 1
    /\ log = <<"diff", "notify", "replace">>

\* C4 as stated (Spec): once get_hash_dict has returned, the pass ends with
\* page_dict replaced by the fresh map, whatever the notifier did.
C4_AlwaysReplaced ==
    pc \in {"return", "done", "notify_error"} => page_dict = new_dict

AnyFetchFailed == \E u \in DOMAIN web : web[u] = ERR

\* C5 (Spec): a pass in which a fetch fails changes nothing: page_dict keeps
\* its pre-pass value, the notifier is not called and the file is not written;
\* the pass does not go on to the diff, it ends in the error.
C5_FailedPassNoChange ==
    /\ AnyFetchFailed =>
          /\ pc \in {"pool", "fetch_error"}
          /\ page_dict = json_load(file0)
          /\ file = file0
          /\ notified = 0
          /\ writes = 0
    /\ pc = "fetch_error" => AnyFetchFailed

\* a pass that fails after another URL was fetched and hashed
C5_Witness ==
    /\ pc = "fetch_error"
    /\ \E u \in DOMAIN web : web[u] \in Pages
    /\ \E u \in DOMAIN page_dict : page_dict[u] # ""

\* C6 (SpecHash): whatever process_count is, and in whatever order the workers
\* finish, get_hash_dict returns the map from exactly the given URLs to the
\* digest of the page fetched there.
C6_SameResult ==
    pc = "diff_dict" =>
        /\ DOMAIN new_dict = {url_list[i] : i \in DOMAIN url_list}
        /\ DOMAIN new_dict = DOMAIN page_dict
        /\ \A u \in DOMAIN new_dict : new_dict[u] = hexdigest(web[u])

\* the pool returned a map of more URLs than it has workers, of two digests
C6_Witness ==
    /\ pc = "diff_dict"
    /\ process_count > 2
    /\ len(new_dict) > process_count
    /\ \E u, v \in DOMAIN new_dict : new_dict[u] # new_dict[v]

\* C7 (SpecHash): at most process_count URLs are fetched and hashed at the same
\* time, and when get_hash_dict returns every URL was processed exactly once.
C7_BoundedWorkers ==
    /\ Cardinality(inflight) <= process_count
    /\ \A u \in DOMAIN fetched : fetched[u] = 1 /\ u \in DOMAIN page_dict
    /\ pc = "diff_dict" =>
          /\ DOMAIN fetched = DOMAIN page_dict
          /\ inflight = {}

\* every worker of the pool is busy while a URL waits in the queue
C7_Witness ==
    /\ pc = "pool"
    /\ Cardinality(inflight) = process_count
    /\ next_task <= Len(url_list)

\* C8 (Spec): the run writes the file if and only if the returned diff is
\* non-empty; a pass that finds no change leaves the file as it was.
C8_SaveIffChanged ==
    /\ writes <= 1
    /\ writes = 1 => pc = "done"
    /\ pc = "done" => (writes = 1 <=> DOMAIN diff # {})
    /\ writes = 0 => file = file0

\* a run that found a change and wrote the file
C8_Witness ==
    /\ pc = "done"
    /\ writes = 1
    /\ file # file0

\* C9 as stated (Spec): when a fetch fails, the other URLs of the pass are
\* still fetched and hashed.
C9_OthersStillFetched ==
    pc = "fetch_error" => \A u \in DOMAIN page_dict : u \in DOMAIN fetched

\* C10 (Spec): at the end of a successful run the mapping in the file equals
\* page_dict, also when the save was skipped: the fresh map has the keys of
\* the prior one and the diff is empty exactly when the two are equal.
C10_FileMatchesState ==
    /\ pc = "done" => json_load(file) = page_dict
    /\ pc \in {"notify", "replace"} =>
          /\ DOMAIN new_dict = DOMAIN page_dict
          /\ DOMAIN diff = {} <=> new_dict = page_dict

\* a run over a non-empty checklist that skipped the save
C10_Witness ==
    /\ pc = "done"
    /\ writes = 0
    /\ file = file0
    /\ DOMAIN page_dict # {}

====
